---- MODULE Spec2Model ----
(***************************************************************************)
(* Living Memory Vault: the memory store (embeddings.py), the ingestion    *)
(* orchestrator (ingestion.py) and the retrieval-augmented responder       *)
(* (rag.py) as state machines.                                             *)
(*                                                                         *)
(* Python values.  A string that the code only passes around is a TLA+     *)
(* string; a string that the code builds by formatting or joining is the   *)
(* sequence of its pieces, '' being << >>; a query, which the code         *)
(* searches for substrings, is the sequence of its characters.  A value    *)
(* that may be None is the record [none, val].  A dict is a function       *)
(* whose DOMAIN is its key set.                                            *)
(***************************************************************************)
EXTENDS Integers, Sequences, FiniteSets, TLC

VARIABLES
    persisted,      \* number of entries the persistent index held at construction
    onDuplicate,    \* what the installed index does with an id it already holds
    collection,     \* entries added to the index since construction, in order
    last,           \* the latest add_memories call: its input and what it computed
    answer,         \* the latest query: what was retrieved, prompted and returned
    calls,          \* the add_memories call of each concurrent caller
    uploaded_files, \* ingest_files: the uploads of the batch taken up so far
    memories,       \* ingest_files: the list it builds and returns
    uploadsDir,     \* names of the files in the uploads directory
    tempFiles,      \* names of the temp_<filename> files in the working directory
    pc,             \* ingest_files: "loop", "returned" or "raised"
    log             \* what happened to each upload taken up, in order

storeVars == <<persisted, onDuplicate, collection, last>>
ingestVars == <<uploaded_files, memories, uploadsDir, tempFiles, pc, log>>
vars == <<persisted, onDuplicate, collection, last, answer, calls,
          uploaded_files, memories, uploadsDir, tempFiles, pc, log>>

----------------------------------------------------------------------------
\* Bounds of the model.
MaxBatch == 2       \* longest batch given to one add_memories call
MaxStored == 3      \* entries added to the index in one run
MaxMemories == 2    \* entries in the index of the runs that answer queries
MaxK == 2           \* largest n_results of a query
MaxUploads == 3     \* longest batch given to ingest_files

\* collection.get(limit=10000)
GetLimit == 10000

Min(a, b) == IF a <= b THEN a ELSE b

----------------------------------------------------------------------------
\* Python values

PyNone == [none |-> TRUE, val |-> ""]
PyStr(s) == [none |-> FALSE, val |-> s]

\* bool(v) of an optional string
Truthy(v) == ~v.none /\ v.val # ""

\* d.get(key, default)
Get(d, key, default) == IF key \in DOMAIN d THEN d[key] ELSE default

----------------------------------------------------------------------------
\* The memory dicts callers hand to add_memories.  ingest_files builds the
\* first two shapes (year None; file_path None or the saved name); the
\* others are dicts that leave keys out or hold '' for them.
MemoryRecords ==
    { [content |-> <<"Trip to the beach in 1999">>,
       filename |-> PyStr("notes.txt"), source_type |-> PyStr("text"),
       upload_time |-> PyStr("2024-05-01T10:00:00"),
       year |-> PyNone, file_path |-> PyNone],
      [content |-> <<"This image shows: ", "a beach", ". This appears to be a personal memory captured in a photograph.">>,
       filename |-> PyStr("beach.png"), source_type |-> PyStr("image"),
       upload_time |-> PyStr("2024-05-01T10:00:01"),
       year |-> PyNone, file_path |-> PyStr("u1_beach.png")],
      [content |-> <<"Audio transcription: ", "happy birthday">>,
       filename |-> PyStr("party.mp3"), source_type |-> PyStr("audio"),
       upload_time |-> PyStr("2024-05-01T10:00:02"),
       file_path |-> PyStr("u2_party.mp3")],
      [content |-> <<"This image shows: ", "a dog", ". This appears to be a personal memory captured in a photograph.">>,
       filename |-> PyStr("dog.png"), source_type |-> PyStr("image"),
       upload_time |-> PyStr("2024-05-01T10:00:03"),
       year |-> PyStr(""), file_path |-> PyStr("u3_dog.png")],
      [content |-> <<"This image shows: ", "a cake", ". This appears to be a personal memory captured in a photograph.">>,
       filename |-> PyStr("cake.png"), source_type |-> PyStr("image"),
       upload_time |-> PyStr("2024-05-01T10:00:04"),
       year |-> PyStr("2001")] }

Batches(n) == UNION { [1..k -> MemoryRecords] : k \in 0..n }

----------------------------------------------------------------------------
\* MemoryEmbeddings

\* generate_embedding: the model's vector for a text, left uninterpreted
generate_embedding(text) == [model |-> "all-MiniLM-L6-v2", text |-> text]

\* entries in the index: those persisted before construction, memory_0 ..
\* memory_(persisted-1), and those added since
Count == persisted + Len(collection)

HasId(id) == id[2] < persisted \/ \E j \in 1..Len(collection) : collection[j].id = id

\* len(self.collection.get(limit=10000)['ids']), 0 when the lookup raises
ExistingCount(n, getOk) == IF getOk THEN Min(n, GetLimit) ELSE 0

\* f"memory_{n}"
MemoryId(n) == <<"memory_", n>>

\* the id of the i-th memory of a batch (i counted from 1 here, from 0 in the loop)
AssignId(existing_count, i) == MemoryId(existing_count + (i - 1))

BatchIds(existing_count, batch) ==
    [i \in 1..Len(batch) |-> AssignId(existing_count, i)]

\* Metadata with every empty value filtered out, not only None
MetadataWithoutEmpty(memory) ==
    LET metadata == [filename |-> memory.filename,
                     source_type |-> memory.source_type,
                     upload_time |-> memory.upload_time,
                     year |-> Get(memory, "year", PyStr("")),
                     file_path |-> Get(memory, "file_path", PyStr(""))]
        keep == { k \in DOMAIN metadata : Truthy(metadata[k]) }
    IN  [k \in keep |-> metadata[k]]

\* the metadata dict with its None values filtered out
Metadata(memory) ==
    LET metadata == [filename |-> memory.filename,
                     source_type |-> memory.source_type,
                     upload_time |-> memory.upload_time,
                     year |-> Get(memory, "year", PyStr("")),
                     file_path |-> Get(memory, "file_path", PyStr(""))]
        keep == { k \in DOMAIN metadata : ~metadata[k].none }
    IN  [k \in keep |-> metadata[k]]

RECURSIVE SelectSeq2(_, _)
\* the entries of s at the positions not in drop, in order
SelectSeq2(s, drop) ==
    IF s = << >> THEN << >>
    ELSE LET n == Len(s)
             front == SelectSeq2(SubSeq(s, 1, n - 1), drop)
         IN  IF n \in drop THEN front ELSE Append(front, s[n])

\* the positions of a batch whose id the index already holds
Clashes(ids) == { i \in 1..Len(ids) : HasId(ids[i]) }

\* collection.add: an id the index already holds is skipped by an index that
\* ignores duplicates, and makes the whole call raise on one that rejects them
CollectionAdd(entries) ==
    LET clash == Clashes([i \in 1..Len(entries) |-> entries[i].id])
    IN  IF clash = {} THEN collection \o entries
        ELSE IF onDuplicate = "ignore" THEN collection \o SelectSeq2(entries, clash)
        ELSE collection

NoCall ==
    [memories |-> << >>, count_before |-> 0, got |-> TRUE, existing_count |-> 0,
     ids |-> << >>, metadatas |-> << >>, clash |-> {}, result |-> "none"]

BatchEntries(batch, ids) ==
    [i \in 1..Len(batch) |->
        [id |-> ids[i],
         embedding |-> generate_embedding(batch[i].content),
         document |-> batch[i].content,
         metadata |-> Metadata(batch[i])]]

\* add_memories(memories); getOk: whether the count lookup succeeds
AddMemories(batch, getOk) ==
    /\ IF batch = << >>
       THEN /\ last' = [NoCall EXCEPT !.result = "returned"]
            /\ UNCHANGED collection
       ELSE LET existing_count == ExistingCount(Count, getOk)
                ids == BatchIds(existing_count, batch)
                entries == BatchEntries(batch, ids)
                clash == Clashes(ids)
            IN  /\ collection' = CollectionAdd(entries)
                /\ last' = [memories |-> batch,
                            count_before |-> Count,
                            got |-> getOk,
                            existing_count |-> existing_count,
                            ids |-> ids,
                            metadatas |-> [i \in 1..Len(batch) |-> entries[i].metadata],
                            clash |-> clash,
                            result |-> IF clash # {} /\ onDuplicate = "raise"
                                       THEN "raised" ELSE "returned"]
    /\ UNCHANGED <<persisted, onDuplicate, answer, calls, ingestVars>>

----------------------------------------------------------------------------
\* RAGSystem

UpperCase == <<"A", "B", "C", "D", "E", "F", "G", "H", "I", "J", "K", "L", "M", "N", "O", "P", "Q", "R", "S", "T", "U", "V", "W", "X", "Y", "Z">>
LowerCase == <<"a", "b", "c", "d", "e", "f", "g", "h", "i", "j", "k", "l", "m", "n", "o", "p", "q", "r", "s", "t", "u", "v", "w", "x", "y", "z">>

\* the lower-case letter of each upper-case letter
LowerTable ==
    [c \in { UpperCase[n] : n \in 1..Len(UpperCase) } |->
        LowerCase[CHOOSE n \in 1..Len(UpperCase) : UpperCase[n] = c]]

RECURSIVE Lower(_)
\* str.lower()
Lower(s) ==
    IF s = << >> THEN << >>
    ELSE <<IF Head(s) \in DOMAIN LowerTable THEN LowerTable[Head(s)] ELSE Head(s)>>
            \o Lower(Tail(s))

\* word in s
Contains(s, word) ==
    \E i \in 1..(Len(s) - Len(word) + 1) : SubSeq(s, i, i + Len(word) - 1) = word

ImageWords ==
    { <<"p", "h", "o", "t", "o">>,
      <<"i", "m", "a", "g", "e">>,
      <<"p", "i", "c", "t", "u", "r", "e">>,
      <<"s", "h", "o", "w">>,
      <<"d", "i", "s", "p", "l", "a", "y">> }

AudioWords ==
    { <<"a", "u", "d", "i", "o">>,
      <<"s", "o", "u", "n", "d">>,
      <<"r", "e", "c", "o", "r", "d", "i", "n", "g">>,
      <<"p", "l", "a", "y">>,
      <<"l", "i", "s", "t", "e", "n">>,
      <<"m", "u", "s", "i", "c">>,
      <<"v", "o", "i", "c", "e">> }

\* any(word in query.lower() for word in words)
AnyWordIn(words, query) ==
    LET lowered == Lower(query)
    IN  \E word \in words : Contains(lowered, word)

\* The queries asked: "show me the photo from the beach", "Play the Recording",
\* "display", "what happened in 1999", "PHOTO", "my Voice".
Queries ==
    { <<"s", "h", "o", "w", " ", "m", "e", " ", "t", "h", "e", " ", "p", "h", "o", "t", "o", " ", "f", "r", "o", "m", " ", "t", "h", "e", " ", "b", "e", "a", "c", "h">>,
      <<"P", "l", "a", "y", " ", "t", "h", "e", " ", "R", "e", "c", "o", "r", "d", "i", "n", "g">>,
      <<"d", "i", "s", "p", "l", "a", "y">>,
      <<"w", "h", "a", "t", " ", "h", "a", "p", "p", "e", "n", "e", "d", " ", "i", "n", " ", "1", "9", "9", "9">>,
      <<"P", "H", "O", "T", "O">>,
      <<"m", "y", " ", "V", "o", "i", "c", "e">> }

\* AnyWordIn for each query asked, computed once
AsksForImages == [query \in Queries |-> AnyWordIn(ImageWords, query)]
AsksForAudio == [query \in Queries |-> AnyWordIn(AudioWords, query)]

\* What the generative model may return for a prompt (its first candidate).
Generated ==
    { <<"Answer:", " ", "You went to the beach.">>,
      <<"You went to the beach.">> }

FallbackResponse == <<"I don't have any memories to reference yet. Please upload some files first!">>
ImageIntentContext == <<"The user is asking about images/photos in their memories.">>
AudioIntentContext == <<"The user is asking about audio recordings in their memories.">>

\* collection.query(query_embeddings=[e], n_results=k): the positions of the
\* nearest entries, nearest first.  Which entries are nearest is the embedding
\* model's matter, so every choice of min(k, count) distinct entries in every
\* order is possible.  (Queries are asked of indexes that were empty at
\* construction, so every entry is in collection.)
QueryResults(n_results) ==
    LET n == Min(n_results, Len(collection))
    IN  { pos \in [1..n -> 1..Len(collection)] :
            \A a, b \in 1..n : a # b => pos[a] # pos[b] }

\* search_memories: one dict per result; the distance is the result's rank
SearchMemories(pos) ==
    [i \in 1..Len(pos) |->
        [content |-> collection[pos[i]].document,
         metadata |-> collection[pos[i]].metadata,
         distance |-> i]]

\* [mem for mem in retrieved_memories if mem['metadata'].get('source_type') == t]
OfType(retrieved, t) ==
    SelectSeq(retrieved, LAMBDA mem :
        "source_type" \in DOMAIN mem.metadata /\ mem.metadata.source_type = PyStr(t))

OtherMemories(retrieved) ==
    SelectSeq(retrieved, LAMBDA mem :
        ~ ("source_type" \in DOMAIN mem.metadata
           /\ mem.metadata.source_type \in {PyStr("image"), PyStr("audio")}))

RECURSIVE Join(_, _)
\* sep.join(parts)
Join(sep, parts) ==
    IF parts = << >> THEN << >>
    ELSE IF Len(parts) = 1 THEN parts[1]
    ELSE parts[1] \o sep \o Join(sep, Tail(parts))

\* f"Memory from {filename} ({source_type}): {content}"
MemoryLine(mem) ==
    <<"Memory from ", mem.metadata.filename.val, " (", mem.metadata.source_type.val, "): ">>
        \o mem.content

\* BuildContext with the audio intent tried before the image intent
BuildContextAudioFirst(query, retrieved) ==
    LET image_memories == OfType(retrieved, "image")
        audio_memories == OfType(retrieved, "audio")
        other_memories == OtherMemories(retrieved)
        context == Join(<<"\n">>, [i \in 1..Len(other_memories) |-> MemoryLine(other_memories[i])])
    IN  IF audio_memories # << >> /\ AsksForAudio[query]
        THEN AudioIntentContext
        ELSE IF image_memories # << >> /\ AsksForImages[query]
        THEN ImageIntentContext
        ELSE context

\* the context of the prompt: the joined lines, replaced when the query asks
\* for images or for audio that were retrieved
BuildContext(query, retrieved) ==
    LET image_memories == OfType(retrieved, "image")
        audio_memories == OfType(retrieved, "audio")
        other_memories == OtherMemories(retrieved)
        context == Join(<<"\n">>, [i \in 1..Len(other_memories) |-> MemoryLine(other_memories[i])])
    IN  IF image_memories # << >> /\ AsksForImages[query]
        THEN ImageIntentContext
        ELSE IF audio_memories # << >> /\ AsksForAudio[query]
        THEN AudioIntentContext
        ELSE context

\* MediaList keeping every memory whose metadata has a file_path, '' included
MediaListAnyPath(mems) ==
    LET kept == SelectSeq(mems, LAMBDA mem : "file_path" \in DOMAIN mem.metadata)
    IN  [i \in 1..Len(kept) |->
            [path |-> kept[i].metadata.file_path.val,
             filename |-> kept[i].metadata.filename.val]]

\* the {path, filename} dicts of the memories that have a file_path
MediaList(mems) ==
    LET kept == SelectSeq(mems, LAMBDA mem :
                    "file_path" \in DOMAIN mem.metadata /\ Truthy(mem.metadata.file_path))
    IN  [i \in 1..Len(kept) |->
            [path |-> kept[i].metadata.file_path.val,
             filename |-> kept[i].metadata.filename.val]]

RECURSIVE LStrip(_)
LStrip(s) == IF s # << >> /\ Head(s) = " " THEN LStrip(Tail(s)) ELSE s

RECURSIVE RStrip(_)
RStrip(s) == IF s # << >> /\ s[Len(s)] = " " THEN RStrip(SubSeq(s, 1, Len(s) - 1)) ELSE s

\* generated_text[7:].strip() when generated_text starts with "Answer:"
StripAnswerLabel(generated_text) ==
    IF generated_text # << >> /\ Head(generated_text) = "Answer:"
    THEN RStrip(LStrip(Tail(generated_text)))
    ELSE generated_text

\* GenerateResponse without the early return on an empty retrieval
GenerateResponseNoEarlyReturn(query, retrieved, generated_text) ==
    LET context == BuildContext(query, retrieved)
    IN  [context |-> context,
         prompt |-> <<"Question: ">> \o query \o <<"\nContext: ">> \o context \o <<"\nAnswer:">>,
         generator_calls |-> 1,
         result |-> [response |-> <<"As your memory archivist, I recall: ">>
                                     \o StripAnswerLabel(generated_text),
                     images |-> MediaList(OfType(retrieved, "image")),
                     audio |-> MediaList(OfType(retrieved, "audio"))]]

\* generate_response(query, retrieved_memories); generated_text is what the
\* generative model returns when it is called
GenerateResponse(query, retrieved, generated_text) ==
    IF retrieved = << >>
    THEN [context |-> << >>, prompt |-> << >>, generator_calls |-> 0,
          result |-> [response |-> FallbackResponse, images |-> << >>, audio |-> << >>]]
    ELSE LET context == BuildContext(query, retrieved)
         IN  [context |-> context,
              prompt |-> <<"Question: ">> \o query \o <<"\nContext: ">> \o context \o <<"\nAnswer:">>,
              generator_calls |-> 1,
              result |-> [response |-> <<"As your memory archivist, I recall: ">>
                                          \o StripAnswerLabel(generated_text),
                          images |-> MediaList(OfType(retrieved, "image")),
                          audio |-> MediaList(OfType(retrieved, "audio"))]]

NoAnswer ==
    [asked |-> FALSE, query |-> << >>, n_results |-> 0, count |-> 0, retrieved |-> << >>,
     context |-> << >>, prompt |-> << >>, generator_calls |-> 0,
     result |-> [response |-> << >>, images |-> << >>, audio |-> << >>]]

\* retrieve_memories(query, n_results), then generate_response on what it returns
Answer(query, n_results, pos, generated_text) ==
    LET retrieved == SearchMemories(pos)
        out == GenerateResponse(query, retrieved, generated_text)
    IN  /\ answer' = [asked |-> TRUE, query |-> query, n_results |-> n_results, count |-> Count,
                      retrieved |-> retrieved, context |-> out.context,
                      prompt |-> out.prompt, generator_calls |-> out.generator_calls,
                      result |-> out.result]
        /\ UNCHANGED <<storeVars, calls, ingestVars>>

----------------------------------------------------------------------------
\* Two callers, each running one add_memories call on the same store.  A
\* call's steps are its reads and writes of the index: the count lookup (with
\* the ids and metadata it then computes locally) and collection.add.

Callers == {"A", "B"}

\* ingest_files is entered: nothing is read or written yet
NoIngestion ==
    /\ uploaded_files = << >>
    /\ memories = << >>
    /\ uploadsDir = {}
    /\ tempFiles = {}
    /\ pc = "loop"
    /\ log = << >>

Idle ==
    [pc |-> "idle", memories |-> << >>, got |-> TRUE, count_before |-> 0,
     existing_count |-> 0, ids |-> << >>, clash |-> {}, result |-> "none"]

----------------------------------------------------------------------------
\* Sequential use of one store, which may already hold entries.

InitStore ==
    /\ persisted \in {0, GetLimit - 1}
    /\ onDuplicate \in {"ignore", "raise"}
    /\ collection = << >>
    /\ last = NoCall
    /\ answer = NoAnswer
    /\ calls = [c \in Callers |-> Idle]
    /\ NoIngestion

Init == InitStore

Next ==
    \E batch \in Batches(MaxBatch), getOk \in BOOLEAN :
        /\ Len(collection) + Len(batch) <= MaxStored
        /\ AddMemories(batch, getOk)

Spec == Init /\ [][Next]_vars

\* A store that is empty at construction, filled and queried.

InitAnswer ==
    /\ persisted = 0
    /\ onDuplicate \in {"ignore", "raise"}
    /\ collection = << >>
    /\ last = NoCall
    /\ answer = NoAnswer
    /\ calls = [c \in Callers |-> Idle]
    /\ NoIngestion

AddOne ==
    \E memory \in MemoryRecords :
        /\ Len(collection) < MaxMemories
        /\ AddMemories(<<memory>>, TRUE)

\* One query per run: neither search_memories nor generate_response writes
\* any state, so what a query is answered does not depend on earlier queries.
Ask ==
    /\ ~answer.asked
    /\ \E query \in Queries, n_results \in 1..MaxK, generated_text \in Generated :
         \E pos \in QueryResults(n_results) :
            Answer(query, n_results, pos, generated_text)

NextAnswer == AddOne \/ Ask

SpecAnswer == InitAnswer /\ [][NextAnswer]_vars

----------------------------------------------------------------------------
\* The concurrent callers' steps.

\* the records the concurrent callers add
ConcurrentBatches ==
    { batch \in Batches(MaxBatch) :
        \A i \in 1..Len(batch) : batch[i].source_type \in {PyStr("text"), PyStr("audio")} }

\* add_memories is entered; an empty batch returns at once
Enter(c, batch) ==
    /\ calls[c].pc = "idle"
    /\ calls' = [calls EXCEPT ![c] =
                    IF batch = << >>
                    THEN [Idle EXCEPT !.pc = "done", !.result = "returned"]
                    ELSE [Idle EXCEPT !.pc = "count", !.memories = batch]]
    /\ UNCHANGED <<storeVars, answer, ingestVars>>

\* the count lookup, and the ids computed from it
ReadCount(c, getOk) ==
    /\ calls[c].pc = "count"
    /\ LET existing_count == ExistingCount(Count, getOk)
       IN  calls' = [calls EXCEPT ![c] =
                        [@ EXCEPT !.pc = "add", !.got = getOk, !.count_before = Count,
                                  !.existing_count = existing_count,
                                  !.ids = BatchIds(existing_count, calls[c].memories)]]
    /\ UNCHANGED <<storeVars, answer, ingestVars>>

\* IndexAdd with the ids taken from the count at the time of the write
IndexAddCountingAgain(c) ==
    /\ calls[c].pc = "add"
    /\ LET ids == BatchIds(ExistingCount(Count, calls[c].got), calls[c].memories)
           clash == Clashes(ids)
       IN  /\ collection' = CollectionAdd(BatchEntries(calls[c].memories, ids))
           /\ calls' = [calls EXCEPT ![c] =
                           [@ EXCEPT !.pc = "done", !.ids = ids, !.clash = clash,
                                     !.result = IF clash # {} /\ onDuplicate = "raise"
                                                THEN "raised" ELSE "returned"]]
    /\ UNCHANGED <<persisted, onDuplicate, last, answer, ingestVars>>

\* collection.add of the lists built from the count read earlier
IndexAdd(c) ==
    /\ calls[c].pc = "add"
    /\ LET clash == Clashes(calls[c].ids)
       IN  /\ collection' = CollectionAdd(BatchEntries(calls[c].memories, calls[c].ids))
           /\ calls' = [calls EXCEPT ![c] =
                           [@ EXCEPT !.pc = "done", !.clash = clash,
                                     !.result = IF clash # {} /\ onDuplicate = "raise"
                                                THEN "raised" ELSE "returned"]]
    /\ UNCHANGED <<persisted, onDuplicate, last, answer, ingestVars>>

InitConcurrent == InitStore

NextConcurrent ==
    \E c \in Callers :
        \/ \E batch \in ConcurrentBatches : Enter(c, batch)
        \/ \E getOk \in BOOLEAN : ReadCount(c, getOk)
        \/ IndexAdd(c)

SpecConcurrent == InitConcurrent /\ [][NextConcurrent]_vars

----------------------------------------------------------------------------
\* ingestion.py

\* Uploads: (filename, file_data, source_type, description); file_data is the
\* sequence of its bytes.
Uploads ==
    { [filename |-> "notes.txt", file_data |-> <<104, 105>>,
       source_type |-> "text", description |-> << >>],
      [filename |-> "empty.txt", file_data |-> << >>,
       source_type |-> "text", description |-> << >>],
      [filename |-> "cafe.txt", file_data |-> <<99, 233>>,
       source_type |-> "text", description |-> <<"Paris">>],
      [filename |-> "letter.docx", file_data |-> <<80, 75>>,
       source_type |-> "word", description |-> << >>],
      [filename |-> "party.mp3", file_data |-> <<73, 68>>,
       source_type |-> "audio", description |-> << >>],
      [filename |-> "beach.png", file_data |-> <<137, 80>>,
       source_type |-> "image", description |-> <<"At the beach">>],
      [filename |-> "clip.mp4", file_data |-> <<0>>,
       source_type |-> "video", description |-> << >>] }

\* the characters of the bytes that occur in the text uploads
CharOf == (99 :> "c") @@ (104 :> "h") @@ (105 :> "i") @@ (233 :> "e-acute")

RECURSIVE Utf8Decode(_)
\* f.read() of a file opened with encoding='utf-8': one- and two-byte
\* sequences (the uploads hold no valid longer one); ok is FALSE where
\* Python raises UnicodeDecodeError
Utf8Decode(bytes) ==
    IF bytes = << >> THEN [ok |-> TRUE, text |-> << >>]
    ELSE IF bytes[1] < 128
    THEN LET rest == Utf8Decode(Tail(bytes))
         IN  [ok |-> rest.ok, text |-> <<CharOf[bytes[1]]>> \o rest.text]
    ELSE IF /\ bytes[1] >= 194 /\ bytes[1] <= 223 /\ Len(bytes) >= 2
            /\ bytes[2] >= 128 /\ bytes[2] <= 191
    THEN LET rest == Utf8Decode(SubSeq(bytes, 3, Len(bytes)))
         IN  [ok |-> rest.ok,
              text |-> <<CharOf[(bytes[1] - 192) * 64 + (bytes[2] - 128)]>> \o rest.text]
    ELSE [ok |-> FALSE, text |-> << >>]

\* f.read() of a file opened with encoding='latin-1': one character per byte
Latin1Decode(bytes) == [i \in 1..Len(bytes) |-> CharOf[bytes[i]]]

\* What a normalizer does: it returns content or it raises.
Returns(content) == [raised |-> FALSE, content |-> content]
Raises == [raised |-> TRUE, content |-> << >>]

process_text_file(file_data) ==
    LET utf8 == Utf8Decode(file_data)
    IN  Returns(IF utf8.ok THEN utf8.text ELSE Latin1Decode(file_data))

\* What the libraries and models outside the repository do with a file:
\* fails is whether the call raises, error is str(e), text is the caption or
\* the transcription, paragraphs the texts of the document's paragraphs.
External(source_type) ==
    IF source_type = "word"
    THEN { [fails |-> TRUE, error |-> <<"Package not found">>, text |-> << >>, paragraphs |-> << >>],
           [fails |-> FALSE, error |-> << >>, text |-> << >>, paragraphs |-> << >>],
           [fails |-> FALSE, error |-> << >>, text |-> << >>,
            paragraphs |-> << <<"Dear Ann">>, << >> >>] }
    ELSE IF source_type = "audio"
    THEN { [fails |-> TRUE, error |-> <<"out of memory">>, text |-> << >>, paragraphs |-> << >>],
           [fails |-> TRUE, error |-> << >>, text |-> << >>, paragraphs |-> << >>],
           [fails |-> FALSE, error |-> << >>, text |-> <<"happy birthday">>, paragraphs |-> << >>] }
    ELSE IF source_type = "image"
    THEN { [fails |-> TRUE, error |-> <<"cannot identify image file">>, text |-> << >>, paragraphs |-> << >>],
           [fails |-> FALSE, error |-> << >>, text |-> <<"a beach">>, paragraphs |-> << >>] }
    ELSE { [fails |-> FALSE, error |-> << >>, text |-> << >>, paragraphs |-> << >>] }

process_word_file(ext) ==
    IF ext.fails THEN Raises ELSE Returns(Join(<<"\n">>, ext.paragraphs))

\* process_audio_file letting the failure of the transcription out
ProcessAudioFileRaising(ext) ==
    IF ext.fails THEN Raises ELSE Returns(<<"Audio transcription: ">> \o ext.text)

process_audio_file(ext) ==
    IF ext.fails
    THEN Returns(<<"Audio transcription failed: ">> \o ext.error
                    \o <<". This is a placeholder for audio content.">>)
    ELSE Returns(<<"Audio transcription: ">> \o ext.text)

process_image_file(ext) ==
    IF ext.fails THEN Raises
    ELSE Returns(<<"This image shows: ">> \o ext.text
                    \o <<". This appears to be a personal memory captured in a photograph.">>)

\* the dispatch on source_type (the unsupported types are skipped before it)
Normalize(upload, ext) ==
    IF upload.source_type = "text" THEN process_text_file(upload.file_data)
    ELSE IF upload.source_type = "word" THEN process_word_file(ext)
    ELSE IF upload.source_type = "audio" THEN process_audio_file(ext)
    ELSE process_image_file(ext)

SupportedTypes == {"text", "word", "audio", "image"}

\* f"Description: {description}\n\n{content}" when a description is given
WithDescription(description, content) ==
    IF description # << >>
    THEN <<"Description: ">> \o description \o <<"\n\n">> \o content
    ELSE content

\* f"{uuid.uuid4()}_{filename}": the i-th upload draws the i-th uuid
UniqueFilename(i, filename) == "uuid" \o ToString(i) \o "_" \o filename

\* f"temp_{filename}"
TempPath(filename) == "temp_" \o filename

\* open(path, 'wb') and f.write(file_data): "ok", "open_failed" (no file is
\* made) or "write_failed" (the file is made, the write raises)
WriteOutcomes == {"ok", "open_failed", "write_failed"}

AfterWrite(files, name, outcome) ==
    IF outcome = "open_failed" THEN files ELSE files \cup {name}

\* the except branch without its cleanup of the saved file
CleanUpSavedKept(files, saved) == files

\* if file_path and file_path.exists(): file_path.unlink()
CleanUpSaved(files, saved) == IF saved # "" THEN files \ {saved} ELSE files

\* if temp_path.exists(): temp_path.unlink()
CleanUpTemp(files, temp_path) == files \ {temp_path}

\* One turn of the loop of ingest_files on the next upload of the batch.
\* save and temp are what the two writes do, ext what the normalizer's
\* library does.
ProcessUpload(upload, save, temp, ext) ==
    /\ pc = "loop"
    /\ LET i == Len(uploaded_files) + 1
           media == upload.source_type \in {"image", "audio"}
           unique_filename == UniqueFilename(i, upload.filename)
           saved == IF media THEN unique_filename ELSE ""
           temp_path == TempPath(upload.filename)
           entry == [saved |-> saved, ext |-> ext, normalized |-> FALSE, outcome |-> "stored"]
       IN  /\ uploaded_files' = Append(uploaded_files, upload)
           /\ IF media /\ save # "ok"
              THEN \* the write of the side-file raises, outside the try
                   /\ uploadsDir' = AfterWrite(uploadsDir, unique_filename, save)
                   /\ pc' = "raised"
                   /\ log' = Append(log, [entry EXCEPT !.outcome = "save_failed"])
                   /\ UNCHANGED <<memories, tempFiles>>
              ELSE IF temp # "ok"
              THEN \* the write of the temporary file raises, outside the try
                   /\ uploadsDir' = IF media THEN AfterWrite(uploadsDir, unique_filename, "ok")
                                    ELSE uploadsDir
                   /\ tempFiles' = AfterWrite(tempFiles, temp_path, temp)
                   /\ pc' = "raised"
                   /\ log' = Append(log, [entry EXCEPT !.outcome = "temp_failed"])
                   /\ UNCHANGED memories
              ELSE IF upload.source_type \notin SupportedTypes
              THEN \* continue; the finally clause removes the temporary file
                   /\ tempFiles' = CleanUpTemp(AfterWrite(tempFiles, temp_path, "ok"), temp_path)
                   /\ log' = Append(log, [entry EXCEPT !.outcome = "skipped"])
                   /\ UNCHANGED <<memories, uploadsDir, pc>>
              ELSE LET got == Normalize(upload, ext)
                       written == IF media THEN AfterWrite(uploadsDir, unique_filename, "ok")
                                  ELSE uploadsDir
                   IN  /\ tempFiles' = CleanUpTemp(AfterWrite(tempFiles, temp_path, "ok"), temp_path)
                       /\ IF got.raised
                          THEN /\ uploadsDir' = CleanUpSaved(written, saved)
                               /\ log' = Append(log, [entry EXCEPT !.normalized = TRUE,
                                                                   !.outcome = "dropped"])
                               /\ UNCHANGED memories
                          ELSE /\ uploadsDir' = written
                               /\ memories' = Append(memories,
                                    [content |-> WithDescription(upload.description, got.content),
                                     filename |-> PyStr(upload.filename),
                                     source_type |-> PyStr(upload.source_type),
                                     upload_time |-> PyStr(ToString(i)),
                                     year |-> PyNone,
                                     file_path |-> IF media THEN PyStr(unique_filename) ELSE PyNone])
                               /\ log' = Append(log, [entry EXCEPT !.normalized = TRUE])
                       /\ UNCHANGED pc
    /\ UNCHANGED <<storeVars, answer, calls>>

\* the batch holds no further upload: return memories
Return ==
    /\ pc = "loop"
    /\ pc' = "returned"
    /\ UNCHANGED <<storeVars, answer, calls, uploaded_files, memories, uploadsDir, tempFiles, log>>

InitIngest == InitAnswer

NextIngest ==
    \/ /\ Len(uploaded_files) < MaxUploads
       /\ \E upload \in Uploads, save \in WriteOutcomes, temp \in WriteOutcomes :
            \E ext \in External(upload.source_type) :
                ProcessUpload(upload, save, temp, ext)
    \/ Return

SpecIngest == InitIngest /\ [][NextIngest]_vars

----------------------------------------------------------------------------
\* Helpers of the properties.

Range(s) == { s[i] : i \in DOMAIN s }

\* the n-th smallest element of a set of positions
Nth(S, n) == CHOOSE i \in S : Cardinality({ j \in S : j <= i }) = n

SourceType(mem) == mem.metadata.source_type.val

Asked == answer.asked

\* the positions of the retrieved memories of type t that have a non-empty file_path
WithPath(t) ==
    { i \in DOMAIN answer.retrieved :
        /\ SourceType(answer.retrieved[i]) = t
        /\ "file_path" \in DOMAIN answer.retrieved[i].metadata
        /\ ~answer.retrieved[i].metadata.file_path.none
        /\ answer.retrieved[i].metadata.file_path.val # "" }

PathsOf(P) ==
    [n \in 1..Cardinality(P) |->
        [path |-> answer.retrieved[Nth(P, n)].metadata.file_path.val,
         filename |-> answer.retrieved[Nth(P, n)].metadata.filename.val]]

QueryHas(words) == \E word \in words : Contains(Lower(answer.query), word)

Retrieved(t) == \E i \in DOMAIN answer.retrieved : SourceType(answer.retrieved[i]) = t

----------------------------------------------------------------------------
\* C1: every non-empty batch is given the ids memory_c .. memory_(c+N-1), c
\* being the number of entries in the store just before the call, and none of
\* these ids is already the id of a stored entry (stated for the calls whose
\* count lookup succeeded).
C1_IdsContinueFromCount ==
    (last.result # "none" /\ last.memories # << >> /\ last.got) =>
        /\ last.ids = [i \in 1..Len(last.memories) |-> MemoryId(last.count_before + i - 1)]
        /\ last.clash = {}

\* C5 as claimed: no stored metadata holds a field whose value is None or ''.
C5_NoAbsentOrEmptyField ==
    \A j \in 1..Len(collection) :
        \A k \in DOMAIN collection[j].metadata : Truthy(collection[j].metadata[k])

\* C5 as amended: no stored metadata holds a None; a year or file_path that is
\* None is left out of the metadata handed to the index, and one that is
\* missing from the record or is '' is handed over as ''; the index stores
\* what it is handed.
C5_NoneOmittedEmptyKept ==
    /\ \A j \in 1..Len(collection) :
          \A k \in DOMAIN collection[j].metadata : ~collection[j].metadata[k].none
    /\ \A i \in 1..Len(last.memories) : \A k \in {"year", "file_path"} :
          LET given == k \in DOMAIN last.memories[i]
          IN  IF given /\ last.memories[i][k].none
              THEN k \notin DOMAIN last.metadatas[i]
              ELSE /\ k \in DOMAIN last.metadatas[i]
                   /\ last.metadatas[i][k] = IF given THEN last.memories[i][k] ELSE PyStr("")
    /\ last.result = "returned" =>
          \A i \in 1..Len(last.memories) : i \notin last.clash =>
              \E j \in 1..Len(collection) :
                  /\ collection[j].id = last.ids[i]
                  /\ collection[j].metadata = last.metadatas[i]

\* a record without a year is stored with year '', one without a file_path
\* with file_path '', next to a record whose None year and None file_path
\* were left out
C5_Witness ==
    /\ \E i \in 1..Len(last.memories) :
          /\ "year" \notin DOMAIN last.memories[i]
          /\ \E j \in 1..Len(collection) :
                /\ collection[j].id = last.ids[i]
                /\ "year" \in DOMAIN collection[j].metadata
                /\ collection[j].metadata.year = PyStr("")
    /\ \E i \in 1..Len(last.memories) :
          /\ "file_path" \notin DOMAIN last.memories[i]
          /\ \E j \in 1..Len(collection) :
                /\ collection[j].id = last.ids[i]
                /\ "file_path" \in DOMAIN collection[j].metadata
                /\ collection[j].metadata.file_path = PyStr("")
    /\ \E j \in 1..Len(collection) :
          /\ "year" \notin DOMAIN collection[j].metadata
          /\ "file_path" \notin DOMAIN collection[j].metadata

\* C7: with a non-empty retrieval the context of the prompt is the image
\* sentence when an image was retrieved and the query holds an image word
\* (then no content of a non-media memory is in it); else the audio sentence
\* when an audio result was retrieved and the query holds an audio word; else
\* the joined lines of the non-media results in retrieval order.
C7_IntentRouting ==
    (Asked /\ answer.retrieved # << >>) =>
        LET others == { i \in DOMAIN answer.retrieved :
                            SourceType(answer.retrieved[i]) \notin {"image", "audio"} }
            lines == [n \in 1..Cardinality(others) |->
                        <<"Memory from ", answer.retrieved[Nth(others, n)].metadata.filename.val,
                          " (", SourceType(answer.retrieved[Nth(others, n)]), "): ">>
                        \o answer.retrieved[Nth(others, n)].content]
        IN  /\ IF Retrieved("image") /\ QueryHas(ImageWords)
               THEN /\ answer.context = ImageIntentContext
                    /\ \A i \in others :
                          Range(answer.retrieved[i].content) \cap Range(answer.prompt) = {}
               ELSE IF Retrieved("audio") /\ QueryHas(AudioWords)
               THEN answer.context = AudioIntentContext
               ELSE answer.context = Join(<<"\n">>, lines)
            /\ answer.prompt = <<"Question: ">> \o answer.query \o <<"\nContext: ">>
                                  \o answer.context \o <<"\nAnswer:">>

\* an image and an audio result, a query with an image word and an audio word
\* ("display" holds "play"): the image sentence wins
C7_Witness ==
    /\ Asked
    /\ Retrieved("image") /\ Retrieved("audio")
    /\ QueryHas(ImageWords) /\ QueryHas(AudioWords)
    /\ answer.context = ImageIntentContext

\* C8: a query on a store that holds nothing retrieves the empty sequence and
\* is answered with the fixed message and empty media lists, the generative
\* model not being called.
C8_EmptyStoreFallback ==
    (Asked /\ answer.count = 0) =>
        /\ answer.retrieved = << >>
        /\ answer.result = [response |-> FallbackResponse, images |-> << >>, audio |-> << >>]
        /\ answer.generator_calls = 0

\* a query answered before anything was ever stored
C8_Witness ==
    /\ Asked /\ answer.count = 0
    /\ collection = << >> /\ last = NoCall
    /\ answer.result.response = FallbackResponse

\* C9: with a non-empty retrieval, images is the {path, filename} of the image
\* results that have a non-empty file_path, in retrieval order, audio the same
\* for the audio results; a media result without file_path is in neither list
\* and still counts for the routing of the context.
C9_MediaLists ==
    (Asked /\ answer.retrieved # << >>) =>
        /\ answer.result.images = PathsOf(WithPath("image"))
        /\ answer.result.audio = PathsOf(WithPath("audio"))
        /\ (Retrieved("image") /\ QueryHas(ImageWords)) =>
              answer.context = ImageIntentContext
        /\ (Retrieved("audio") /\ ~Retrieved("image") /\ QueryHas(AudioWords)) =>
              answer.context = AudioIntentContext

\* two image results, the first without file_path: only the second is listed,
\* and the context is the image sentence
C9_Witness ==
    /\ Asked /\ Len(answer.retrieved) = 2
    /\ SourceType(answer.retrieved[1]) = "image" /\ SourceType(answer.retrieved[2]) = "image"
    /\ 1 \notin WithPath("image") /\ 2 \in WithPath("image")
    /\ Len(answer.result.images) = 1
    /\ answer.result.images[1].filename = answer.retrieved[2].metadata.filename.val
    /\ answer.context = ImageIntentContext

\* the uploads whose record was appended to memories
Stored == { i \in 1..Len(log) : log[i].outcome = "stored" }

\* the records ingest_files made of the i-th upload
RecordsOf(i) == { n \in 1..Len(memories) : memories[n].upload_time = PyStr(ToString(i)) }

\* C2: memories holds exactly one record for each upload whose normalization
\* succeeded, in upload order, and none for an upload whose normalization
\* raised; a raising normalization does not end the call, and the side-file
\* saved for such an upload is gone; no temporary file outlives its turn.
C2_FailedUploadsDropped ==
    /\ Len(memories) = Cardinality(Stored)
    /\ \A n \in 1..Len(memories) :
          /\ memories[n].filename = PyStr(uploaded_files[Nth(Stored, n)].filename)
          /\ memories[n].source_type = PyStr(uploaded_files[Nth(Stored, n)].source_type)
          /\ RecordsOf(Nth(Stored, n)) = {n}
    /\ \A i \in 1..Len(log) :
          /\ log[i].normalized =>
                (i \in Stored <=> ~Normalize(uploaded_files[i], log[i].ext).raised)
          /\ (log[i].normalized /\ i \notin Stored) =>
                /\ log[i].outcome = "dropped"
                /\ RecordsOf(i) = {}
                /\ log[i].saved \notin uploadsDir
                /\ i = Len(log) => pc \in {"loop", "returned"}
    /\ pc # "raised" => tempFiles = {}

\* three uploads, the second an image whose captioning raised after its
\* side-file was saved: two records are returned and the side-file is gone
C2_Witness ==
    /\ pc = "returned" /\ Len(log) = 3
    /\ log[1].outcome = "stored" /\ log[3].outcome = "stored"
    /\ log[2].outcome = "dropped" /\ log[2].saved # "" /\ log[2].ext.fails
    /\ Len(memories) = 2
    /\ memories[1].filename.val = uploaded_files[1].filename
    /\ memories[2].filename.val = uploaded_files[3].filename
    /\ uploadsDir \cap {log[2].saved} = {}

\* C3: a failing write of an upload's side-file or temporary file does not
\* make ingest_files raise, and leaves neither file of that upload on disk.
C3_WriteFailureIsolated ==
    /\ pc # "raised"
    /\ \A i \in 1..Len(log) :
          log[i].outcome \in {"save_failed", "temp_failed"} =>
              /\ log[i].saved \notin uploadsDir
              /\ TempPath(uploaded_files[i].filename) \notin tempFiles

\* C4: no record of memories has empty content.
C4_ContentNeverEmpty ==
    \A n \in 1..Len(memories) : memories[n].content # << >>

\* C6: an audio upload whose speech-to-text raised has exactly one record,
\* whose content is the placeholder around the error message (after the
\* description, if one was given), and its side-file is kept, file_path
\* naming it.
C6_AudioFailureTolerated ==
    \A i \in 1..Len(log) :
        (uploaded_files[i].source_type = "audio" /\ log[i].normalized /\ log[i].ext.fails) =>
            LET placeholder == <<"Audio transcription failed: ">> \o log[i].ext.error
                                  \o <<". This is a placeholder for audio content.">>
                description == uploaded_files[i].description
            IN  /\ Cardinality(RecordsOf(i)) = 1
                /\ \A n \in RecordsOf(i) :
                      /\ memories[n].content # << >>
                      /\ memories[n].content =
                            IF description # << >>
                            THEN <<"Description: ">> \o description \o <<"\n\n">> \o placeholder
                            ELSE placeholder
                      /\ memories[n].file_path = PyStr(log[i].saved)
                /\ log[i].saved # ""
                /\ log[i].saved \in uploadsDir

\* one audio upload whose transcription raised with a message: one record is
\* returned, the message in its content, its side-file on disk
C6_Witness ==
    /\ pc = "returned" /\ Len(log) = 1 /\ Len(memories) = 1
    /\ uploaded_files[1].source_type = "audio"
    /\ log[1].ext.fails /\ log[1].ext.error # << >>
    /\ memories[1].content[1] = "Audio transcription failed: "
    /\ SubSeq(memories[1].content, 2, 1 + Len(log[1].ext.error)) = log[1].ext.error
    /\ memories[1].file_path.val \in uploadsDir

\* C10: when two calls have both read the count with no write to the index
\* between the two reads, and so before either of them writes, the ids they
\* assign overlap; and once both have called collection.add, one of them has
\* submitted an id the index already held.
C10_RacingCallsCollide ==
    \A c, d \in Callers :
        (/\ c # d
         /\ calls[c].pc \in {"add", "done"} /\ calls[d].pc \in {"add", "done"}
         /\ calls[c].memories # << >> /\ calls[d].memories # << >>
         /\ calls[c].got /\ calls[d].got
         /\ calls[c].count_before = calls[d].count_before)
        => /\ Range(calls[c].ids) \cap Range(calls[d].ids) # {}
           /\ (calls[c].pc = "done" /\ calls[d].pc = "done")
                => (calls[c].clash # {} \/ calls[d].clash # {})

\* both calls have returned, the same id was submitted for two different
\* records, and the index holds only one of them
C10_Witness ==
    \E c, d \in Callers :
        /\ c # d
        /\ calls[c].pc = "done" /\ calls[d].pc = "done"
        /\ calls[c].result = "returned" /\ calls[d].result = "returned"
        /\ calls[c].got /\ calls[d].got
        /\ calls[c].count_before = calls[d].count_before
        /\ \E i \in DOMAIN calls[c].ids, j \in DOMAIN calls[d].ids :
              /\ calls[c].ids[i] = calls[d].ids[j]
              /\ calls[c].memories[i] # calls[d].memories[j]
              /\ Cardinality({ n \in 1..Len(collection) : collection[n].id = calls[c].ids[i] }) = 1

====
